---- MODULE Spec2Model ----
(***************************************************************************)
(* Model of ebs_check.py: listing and guarded deletion of unattached EBS   *)
(* volumes.  One run of main() is a state machine whose steps are the      *)
(* provider calls; the provider's store may change between two calls.      *)
(* Strings the code takes apart (the identity ARN) are sequences of        *)
(* one-character strings; strings it only compares are TLA+ strings.       *)
(***************************************************************************)
EXTENDS Integers, Sequences, FiniteSets, TLC

VARIABLES
    store,        \* provider: volume id -> volume record (the volumes that exist)
    args,         \* parsed command line: region, dry_run, verbose, output
    ambient,      \* region of the ambient configuration (or None)
    pc,           \* position of main()
    region,       \* session.region_name
    partition,    \* first component of get_identity's result
    account_id,   \* second component of get_identity's result
    rows,         \* the report rows, in listing order
    i,            \* index in rows of the row the delete loop is at
    ok_count,     \* deleted counter
    fail_count,   \* failed/skipped counter
    exit_status,  \* process exit status (NoStatus while running)
    calls,        \* provider calls issued so far, in order
    out,          \* kinds of the lines printed so far, in order
    removed,      \* volumes this run removed from the store
    volume,       \* input of the is_unattached harness
    verdicts,     \* results of the successive is_unattached calls on volume
    ident,        \* input of the get_identity harness (the STS response)
    idresult      \* result of get_identity on ident

vars == <<store, args, ambient, pc, region, partition, account_id, rows, i,
          ok_count, fail_count, exit_status, calls, out, removed,
          volume, verdicts, ident, idresult>>

runVars == <<store, args, ambient, pc, region, partition, account_id, rows, i,
             ok_count, fail_count, exit_status, calls, out, removed>>

classifyVars == <<volume, verdicts>>

identVars == <<ident, idresult>>

\* ---------------------------------------------------------------- bounds
MaxVols == 3

MaxAtts == 2

MaxArnFields == 4

MaxCalls == 2

\* ------------------------------------------------------- python helpers
None == "None"

\* the exit status of a process that has not exited
NoStatus == 0 - 1

\* dict.get(k, default)
Get(d, k, default) == IF k \in DOMAIN d THEN d[k] ELSE default

\* str.startswith(p)
StartsWith(s, p) == Len(s) >= Len(p) /\ SubSeq(s, 1, Len(p)) = p

\* str.split(c) for a one-character separator c
RECURSIVE Split(_, _)
Split(s, c) ==
    IF \A k \in 1..Len(s) : s[k] # c
    THEN <<s>>
    ELSE LET k == CHOOSE k \in 1..Len(s) : s[k] = c /\ \A j \in 1..(k - 1) : s[j] # c
         IN  <<SubSeq(s, 1, k - 1)>> \o Split(SubSeq(s, k + 1, Len(s)), c)

\* c.join(fields)
RECURSIVE Join(_, _)
Join(fields, c) ==
    IF Len(fields) = 0 THEN <<>>
    ELSE IF Len(fields) = 1 THEN fields[1]
    ELSE fields[1] \o <<c>> \o Join(Tail(fields), c)

ArnPrefix == <<"a", "r", "n", ":">>

AwsPartition == <<"a", "w", "s">>

ZeroAccount == "000000000000"

\* "arn:aws:iam::000000000000:root"
DefaultArn ==
    <<"a", "r", "n", ":", "a", "w", "s", ":", "i", "a", "m", ":", ":">>
    \o [k \in 1..12 |-> "0"] \o <<":", "r", "o", "o", "t">>

\* ------------------------------------------------------- get_identity
\* ident["Account"] raises KeyError when the key is missing.
get_identity_first_field(id) ==
    IF "Account" \notin DOMAIN id
    THEN [exc |-> "KeyError", partition |-> <<>>, account_id |-> None]
    ELSE LET arn == Get(id, "Arn", DefaultArn)
         IN  [exc |-> None,
              partition |-> IF StartsWith(arn, ArnPrefix) THEN Split(arn, ":")[1] ELSE AwsPartition,
              account_id |-> id["Account"]]

get_identity(id) ==
    IF "Account" \notin DOMAIN id
    THEN [exc |-> "KeyError", partition |-> <<>>, account_id |-> None]
    ELSE LET arn == Get(id, "Arn", DefaultArn)
         IN  [exc |-> None,
              partition |-> IF StartsWith(arn, ArnPrefix) THEN Split(arn, ":")[2] ELSE AwsPartition,
              account_id |-> id["Account"]]

\* f"arn:{partition}:ec2:{region}:{account_id}:volume/{volume_id}"
volume_arn(p, r, a, vid) == <<"arn:", p, ":ec2:", r, ":", a, ":volume/", vid>>

\* ------------------------------------------------------- is_unattached
is_unattached_and(v) ==
    Get(v, "State", None) = "available" /\ Len(Get(v, "Attachments", <<>>)) = 0

is_unattached(v) ==
    IF Get(v, "State", None) = "available"
    THEN TRUE
    ELSE Len(Get(v, "Attachments", <<>>)) = 0

\* ------------------------------------------------- harness: is_unattached
VolumeStates == {"available", "in-use", "creating", "error"}

Instances == {"i-1", "i-2"}

\* attachment lists of at most n attachment records
AttachmentLists(n) ==
    UNION {[1..k -> {[InstanceId |-> x] : x \in Instances}] : k \in 0..n}

\* a volume snapshot as describe_volumes returns it; either key may be missing
Snapshot(hasState, s, hasAtts, a) ==
    [k \in {"VolumeId"} \cup (IF hasState THEN {"State"} ELSE {})
                        \cup (IF hasAtts THEN {"Attachments"} ELSE {})
       |-> IF k = "State" THEN s ELSE IF k = "Attachments" THEN a ELSE 1]

VolumeSnapshots ==
    {Snapshot(hs, s, ha, a) : hs \in BOOLEAN, s \in VolumeStates,
                              ha \in BOOLEAN, a \in AttachmentLists(MaxAtts)}

\* ------------------------------------------------- harness: get_identity
ArnFields ==
    {<<>>, <<"a", "r", "n">>, <<"a", "w", "s">>, <<"a", "w", "s", "-", "c", "n">>,
     <<"i", "a", "m">>, <<"a", "r", "n", "x">>}

Arns == {Join(f, ":") : f \in UNION {[1..k -> ArnFields] : k \in 1..MaxArnFields}}

Accounts == {"123456789012", ZeroAccount}

\* the STS response; "Arn" or "Account" may be missing
Identity(hasAccount, acct, hasArn, arn) ==
    [k \in (IF hasAccount THEN {"Account"} ELSE {}) \cup (IF hasArn THEN {"Arn"} ELSE {})
       |-> IF k = "Account" THEN acct ELSE arn]

IdentityResponses ==
    {Identity(hc, c, ha, a) : hc \in BOOLEAN, c \in Accounts, ha \in BOOLEAN, a \in Arns}

NoResult == [exc |-> "pending", partition |-> <<>>, account_id |-> None]

\* ------------------------------------------------------------ provider
VolumeIds == 1..MaxVols

\* the shapes a stored volume takes: unattached and available, attached and
\* in use, and not available with no attachment (a volume in state "error")
Kinds == {"avail", "inuse", "error"}

VolumeOf(v, kind) ==
    [VolumeId |-> v,
     State |-> IF kind = "avail" THEN "available" ELSE IF kind = "inuse" THEN "in-use" ELSE "error",
     Attachments |-> IF kind = "inuse" THEN <<[InstanceId |-> "i-1"]>> ELSE <<>>]

Stores == {[v \in S |-> VolumeOf(v, k[v])] : S \in SUBSET VolumeIds, k \in [VolumeIds -> Kinds]}

RECURSIVE Ascending(_)
Ascending(S) ==
    IF S = {} THEN <<>>
    ELSE LET m == CHOOSE m \in S : \A x \in S : m <= x
         IN  <<m>> \o Ascending(S \ {m})

IsAvailable(v) == v.State = "available"

\* paginate() with no filter: every volume of the region
describe_all_volumes(st) ==
    LET ids == Ascending(DOMAIN st) IN [k \in 1..Len(ids) |-> st[ids[k]]]

\* paginate(Filters=[status = available]): the provider keeps the volumes in state available
describe_unattached_volumes(st) == SelectSeq(describe_all_volumes(st), IsAvailable)

\* the volumes main() reports, with and without --verbose
listed_volumes(verbose, st) ==
    IF verbose
    THEN SelectSeq(describe_all_volumes(st), is_unattached)
    ELSE describe_unattached_volumes(st)

build_rows(vols, p, r, a) ==
    [k \in 1..Len(vols) |->
        [VolumeId |-> vols[k].VolumeId, Arn |-> volume_arn(p, r, a, vols[k].VolumeId)]]

Call(op, vid, res, att) == [op |-> op, vid |-> vid, res |-> res, attached |-> att]

\* the identity the run authenticates as
StsResponses ==
    {Identity(TRUE, "123456789012", TRUE,
              <<"a", "r", "n", ":", "a", "w", "s", "-", "c", "n", ":", "i", "a", "m">>)}

\* ------------------------------------------------------------ the run
Idle ==
    /\ store = <<>>
    /\ args = [region |-> None, dry_run |-> TRUE, verbose |-> FALSE, output |-> "text"]
    /\ ambient = None
    /\ pc = "idle"
    /\ region = None
    /\ partition = <<>>
    /\ account_id = None
    /\ rows = <<>>
    /\ i = 0
    /\ ok_count = 0
    /\ fail_count = 0
    /\ exit_status = NoStatus
    /\ calls = <<>>
    /\ out = <<>>
    /\ removed = {}

NoClassify == volume = Snapshot(FALSE, "available", FALSE, <<>>) /\ verdicts = <<>>

NoIdent == ident = Identity(FALSE, ZeroAccount, FALSE, <<>>) /\ idresult = NoResult

\* ---- is_unattached applied to a drawn snapshot, repeatedly
InitClassify ==
    /\ Idle
    /\ NoIdent
    /\ volume \in VolumeSnapshots
    /\ verdicts = <<>>

Classify ==
    /\ pc = "idle"
    /\ Len(verdicts) < MaxCalls
    /\ verdicts' = Append(verdicts, is_unattached(volume))
    /\ UNCHANGED <<volume, runVars, identVars>>

SpecClassify == InitClassify /\ [][Classify]_vars

\* ---- get_identity applied to a drawn STS response
InitIdent ==
    /\ Idle
    /\ NoClassify
    /\ ident \in IdentityResponses
    /\ idresult = NoResult

GetIdentity ==
    /\ pc = "idle"
    /\ idresult = NoResult
    /\ idresult' = get_identity(ident)
    /\ UNCHANGED <<ident, runVars, classifyVars>>

SpecIdent == InitIdent /\ [][GetIdentity]_vars

\* ---- main()
Init ==
    /\ store \in Stores
    /\ args \in [region : {None, "us-east-1"}, dry_run : BOOLEAN,
                 verbose : BOOLEAN, output : {"text", "json"}]
    /\ ambient \in {None, "eu-west-1"}
    /\ pc = "start"
    /\ region = None
    /\ partition = <<>>
    /\ account_id = None
    /\ rows = <<>>
    /\ i = 0
    /\ ok_count = 0
    /\ fail_count = 0
    /\ exit_status = NoStatus
    /\ calls = <<>>
    /\ out = <<>>
    /\ removed = {}
    /\ NoClassify
    /\ NoIdent

\* boto3.Session(region_name=args.region).region_name, and the region check
ResolveRegion_nocheck ==
    /\ pc = "start"
    /\ region' = (IF args.region # None THEN args.region ELSE ambient)
    /\ pc' = "identity"
    /\ UNCHANGED <<store, args, ambient, partition, account_id, rows, i, ok_count,
                   fail_count, exit_status, calls, out, removed, classifyVars, identVars>>

ResolveRegion ==
    /\ pc = "start"
    /\ LET r == IF args.region # None THEN args.region ELSE ambient
       IN  /\ region' = r
           /\ IF r = None
              THEN /\ out' = Append(out, "error_no_region")
                   /\ exit_status' = 2
                   /\ pc' = "done"
              ELSE /\ pc' = "identity"
                   /\ UNCHANGED <<out, exit_status>>
    /\ UNCHANGED <<store, args, ambient, partition, account_id, rows, i, ok_count,
                   fail_count, calls, removed, classifyVars, identVars>>

\* get_identity(session): the STS call; an error of the call is not caught
CallGetIdentity ==
    /\ pc = "identity"
    /\ \/ /\ calls' = Append(calls, Call("get_caller_identity", 0, "ClientError", FALSE))
          /\ pc' = "crashed"
          /\ exit_status' = 1
          /\ UNCHANGED <<partition, account_id>>
       \/ \E resp \in StsResponses :
            LET r == get_identity(resp)
            IN  /\ calls' = Append(calls, Call("get_caller_identity", 0, "ok", FALSE))
                /\ IF r.exc # None
                   THEN /\ pc' = "crashed"
                        /\ exit_status' = 1
                        /\ UNCHANGED <<partition, account_id>>
                   ELSE /\ pc' = "list"
                        /\ partition' = r.partition
                        /\ account_id' = r.account_id
                        /\ UNCHANGED exit_status
    /\ UNCHANGED <<store, args, ambient, region, rows, i, ok_count, fail_count, out,
                   removed, classifyVars, identVars>>

\* what main() prints between the listing call and the delete loop
ListingOutput(rs) ==
    (IF args.verbose THEN <<"verbose_inventory">> ELSE <<>>)
    \o (IF args.output = "json" THEN <<"listing_json">>
        ELSE (IF rs = <<>> THEN <<"none_found">> ELSE <<"listing_text">>)
             \o (IF args.verbose THEN <<"verbose_summary">> ELSE <<>>))
    \o (IF args.dry_run
        THEN (IF rs # <<>> THEN <<"dry_run_listed">>
              ELSE IF args.verbose THEN <<"dry_run_nothing">> ELSE <<>>)
        ELSE (IF rs = <<>> THEN (IF args.verbose THEN <<"nothing_to_delete">> ELSE <<>>)
              ELSE <<"deleting">>))

\* the runs that return 0 without a delete pass: --dry-run, or no row
returns_before_delete_norows(dry_run, rs) == rs = <<>>

returns_before_delete(dry_run, rs) == dry_run \/ rs = <<>>

\* the listing call, the rows, the report, and the branch on --dry-run
ListVolumes ==
    /\ pc = "list"
    /\ \/ /\ calls' = Append(calls, Call("describe_volumes", 0, "ClientError", FALSE))
          /\ pc' = "crashed"
          /\ exit_status' = 1
          /\ UNCHANGED <<rows, i, out>>
       \/ LET rs == build_rows(listed_volumes(args.verbose, store), partition, region, account_id)
          IN  /\ calls' = Append(calls, Call("describe_volumes", 0, "ok", FALSE))
              /\ rows' = rs
              /\ out' = out \o ListingOutput(rs)
              /\ IF returns_before_delete(args.dry_run, rs)
                 THEN /\ exit_status' = 0
                      /\ pc' = "done"
                      /\ UNCHANGED i
                 ELSE /\ pc' = "recheck"
                      /\ i' = 1
                      /\ UNCHANGED exit_status
    /\ UNCHANGED <<store, args, ambient, region, partition, account_id, ok_count,
                   fail_count, removed, classifyVars, identVars>>

\* end of one iteration: the next row, or the summary and the return
Advance_exit0(fails, lines) ==
    IF i = Len(rows)
    THEN /\ pc' = "done"
         /\ out' = out \o lines \o <<"summary">> \o (IF fails = 0 THEN <<"all_ok">> ELSE <<>>)
         /\ exit_status' = 0
         /\ UNCHANGED i
    ELSE /\ pc' = "recheck"
         /\ i' = i + 1
         /\ out' = out \o lines
         /\ UNCHANGED exit_status

Advance_abort(fails, lines) ==
    IF fails > 0
    THEN /\ pc' = "crashed"
         /\ out' = out \o lines
         /\ exit_status' = 1
         /\ UNCHANGED i
    ELSE IF i = Len(rows)
    THEN /\ pc' = "done"
         /\ out' = out \o lines \o <<"summary">> \o (IF fails = 0 THEN <<"all_ok">> ELSE <<>>)
         /\ exit_status' = IF fails = 0 THEN 0 ELSE 1
         /\ UNCHANGED i
    ELSE /\ pc' = "recheck"
         /\ i' = i + 1
         /\ out' = out \o lines
         /\ UNCHANGED exit_status

Advance(fails, lines) ==
    IF i = Len(rows)
    THEN /\ pc' = "done"
         /\ out' = out \o lines \o <<"summary">> \o (IF fails = 0 THEN <<"all_ok">> ELSE <<>>)
         /\ exit_status' = IF fails = 0 THEN 0 ELSE 1
         /\ UNCHANGED i
    ELSE /\ pc' = "recheck"
         /\ i' = i + 1
         /\ out' = out \o lines
         /\ UNCHANGED exit_status

\* the response of describe_volumes(VolumeIds=[vid]): an error, or the volumes found
Response(err, vols) == [err |-> err, Volumes |-> vols]

DescribeResponses(st, vid) ==
    {Response(TRUE, <<>>)}
    \cup (IF vid \in DOMAIN st THEN {Response(FALSE, <<st[vid]>>)} ELSE {Response(FALSE, <<>>)})

\* how a response reads: an error, no volume, or the class of the volume returned
Reading(resp) ==
    IF resp.err THEN "ClientError"
    ELSE IF resp.Volumes = <<>> THEN "empty"
    ELSE IF Len(Get(resp.Volumes[1], "Attachments", <<>>)) > 0
            /\ Get(resp.Volumes[1], "State", None) # "available"
    THEN "attached" ELSE "unattached"

\* the rows that are skipped: `not vinfo or not is_unattached(vinfo[0])`
skipped_any(vinfo) == vinfo = <<>>

skipped(vinfo) == vinfo = <<>> \/ ~is_unattached(vinfo[1])

\* the two SKIP branches: count the row as failed and go on
Skip_nocount ==
    /\ UNCHANGED fail_count
    /\ Advance(fail_count, <<"skip">>)

Skip ==
    /\ fail_count' = fail_count + 1
    /\ Advance(fail_count + 1, <<"skip">>)

\* the re-check of rows[i] right before its deletion
Recheck ==
    /\ pc = "recheck"
    /\ \E resp \in DescribeResponses(store, rows[i].VolumeId) :
         /\ calls' = Append(calls, Call("describe_volumes", rows[i].VolumeId, Reading(resp), FALSE))
         /\ IF resp.err \/ skipped(resp.Volumes)
            THEN Skip
            ELSE /\ pc' = "delete"
                 /\ UNCHANGED <<i, out, exit_status, fail_count>>
    /\ UNCHANGED <<store, args, ambient, region, partition, account_id, rows, ok_count,
                   removed, classifyVars, identVars>>

\* the provider deletes a volume that exists and has no attachment
Deletable(st, vid) == vid \in DOMAIN st /\ st[vid].Attachments = <<>>

\* what ec2.delete_volume can do to the store: delete the volume, or raise
DeleteOutcomes(st, vid) == {"ClientError"} \cup (IF Deletable(st, vid) THEN {"ok"} ELSE {})

\* delete_volume's first result: True when the call returned, False on ClientError
delete_volume_true(outcome) == TRUE

delete_volume(outcome) == outcome = "ok"

\* delete_volume(ec2, vid) and the counting of its result
Delete ==
    /\ pc = "delete"
    /\ \E outcome \in DeleteOutcomes(store, rows[i].VolumeId) :
         LET vid == rows[i].VolumeId
             att == Reading(Response(FALSE, <<store[vid]>>)) = "attached"
         IN  /\ calls' = Append(calls, Call("delete_volume", vid, outcome,
                                            vid \in DOMAIN store /\ att))
             /\ IF outcome = "ok"
                THEN /\ store' = [v \in DOMAIN store \ {vid} |-> store[v]]
                     /\ removed' = removed \cup {vid}
                ELSE UNCHANGED <<store, removed>>
             /\ IF delete_volume(outcome)
                THEN /\ ok_count' = ok_count + 1
                     /\ Advance(fail_count, <<"deleted">>)
                     /\ UNCHANGED fail_count
                ELSE /\ fail_count' = fail_count + 1
                     /\ Advance(fail_count + 1, <<"failed">>)
                     /\ UNCHANGED ok_count
    /\ UNCHANGED <<args, ambient, region, partition, account_id, rows,
                   classifyVars, identVars>>

Program == ResolveRegion \/ CallGetIdentity \/ ListVolumes \/ Recheck \/ Delete

\* ---- the rest of the world, between two provider calls of the run
Running == pc \in {"list", "recheck", "delete"}

Attach(v) ==
    /\ Running
    /\ v \in DOMAIN store
    /\ store[v].State = "available"
    /\ store' = [store EXCEPT ![v] = VolumeOf(v, "inuse")]
    /\ UNCHANGED <<args, ambient, pc, region, partition, account_id, rows, i, ok_count,
                   fail_count, exit_status, calls, out, removed, classifyVars, identVars>>

Detach(v) ==
    /\ Running
    /\ v \in DOMAIN store
    /\ store[v].State = "in-use"
    /\ store' = [store EXCEPT ![v] = VolumeOf(v, "avail")]
    /\ UNCHANGED <<args, ambient, pc, region, partition, account_id, rows, i, ok_count,
                   fail_count, exit_status, calls, out, removed, classifyVars, identVars>>

ExternalDelete(v) ==
    /\ Running
    /\ Deletable(store, v)
    /\ store' = [w \in DOMAIN store \ {v} |-> store[w]]
    /\ UNCHANGED <<args, ambient, pc, region, partition, account_id, rows, i, ok_count,
                   fail_count, exit_status, calls, out, removed, classifyVars, identVars>>

Environment == \E v \in VolumeIds : Attach(v) \/ Detach(v) \/ ExternalDelete(v)

Next == Program \/ Environment

Spec == Init /\ [][Next]_vars

\* the run is scheduled until it ends; the world may act at any time or never
FairSpec == Spec /\ WF_vars(Program)

\* ================================================================ claims
IsDelete(c) == c.op = "delete_volume"

IsRecheck(c) == c.op = "describe_volumes" /\ c.vid # 0

RowIds == [k \in 1..Len(rows) |-> rows[k].VolumeId]

CallIds(cs) == [k \in 1..Len(cs) |-> cs[k].vid]

\* C1 (as claimed): no delete_volume call is issued for a volume that the
\* provider's state classifies attached at the moment the call is issued.
C1_NoDeleteCallOnAttached ==
    \A k \in DOMAIN calls : IsDelete(calls[k]) => ~calls[k].attached

\* C1 (amended): every delete_volume call directly follows the re-fetch of the
\* same volume, and that re-fetch classified the volume unattached.
C1_DeleteFollowsUnattachedRecheck ==
    \A k \in DOMAIN calls :
        IsDelete(calls[k]) =>
            /\ k > 1
            /\ calls[k - 1] = Call("describe_volumes", calls[k].vid, "unattached", FALSE)

\* a pass that skipped a row attached since the listing and issued a delete for another
C1_Witness ==
    /\ \E k \in DOMAIN calls : IsDelete(calls[k])
    /\ \E k \in DOMAIN calls : IsRecheck(calls[k]) /\ calls[k].res = "attached"

\* C2: is_unattached(V) is True iff V.State is 'available' or V's attachment
\* list is empty (a missing list counts as empty), and every call on the same
\* snapshot gives that result.
C2_Classification ==
    \A k \in DOMAIN verdicts :
        verdicts[k] = (\/ ("State" \in DOMAIN volume /\ volume.State = "available")
                       \/ "Attachments" \notin DOMAIN volume
                       \/ volume.Attachments = <<>>)

\* two calls on a snapshot without State whose attachment list is empty
C2_Witness ==
    /\ Len(verdicts) >= 2
    /\ "State" \notin DOMAIN volume
    /\ "Attachments" \in DOMAIN volume
    /\ verdicts[1]

NoDeleteForSkipped(cs) ==
    \A k \in DOMAIN cs :
        (IsRecheck(cs[k]) /\ cs[k].res # "unattached") =>
            \A j \in DOMAIN cs : IsDelete(cs[j]) => cs[j].vid # cs[k].vid

\* C3: a row whose re-fetch raises, returns no volume or returns a volume not
\* classified unattached gets no delete_volume call, adds exactly one to the
\* failed/skipped counter, leaves the deleted counter alone, and the loop goes
\* on to the next row.
C3_SkipCountsOneFailure ==
    [][(/\ pc = "recheck"
        /\ Len(calls') = Len(calls) + 1
        /\ calls'[Len(calls')].res \in {"ClientError", "empty", "attached"})
       => /\ fail_count' = fail_count + 1
          /\ ok_count' = ok_count
          /\ store' = store
          /\ NoDeleteForSkipped(calls')
          /\ IF i < Len(rows) THEN pc' = "recheck" /\ i' = i + 1 ELSE pc' = "done"]_vars

\* three rows, the second attached since the listing: deleted=2, failed/skipped=1
C3_Witness ==
    /\ pc = "done"
    /\ Len(rows) = 3
    /\ ok_count = 2
    /\ fail_count = 1
    /\ \E k \in DOMAIN calls :
          calls[k] = Call("describe_volumes", rows[2].VolumeId, "attached", FALSE)

\* C4 (as claimed): every run that passed the region check exits 0 iff no
\* deletion failed or was skipped, and exits 1 if one did.
C4_ExitZeroIffNoFailure ==
    (pc \in {"done", "crashed"} /\ region # None) =>
        /\ (exit_status = 0) <=> (fail_count = 0)
        /\ fail_count > 0 => exit_status = 1

\* C4 (amended): every run that passed the region check and returned from
\* main() exits 0 iff no deletion failed or was skipped, and 1 if one did.
C4_ReturnZeroIffNoFailure ==
    (pc = "done" /\ region # None) =>
        /\ (exit_status = 0) <=> (fail_count = 0)
        /\ fail_count > 0 => exit_status = 1

\* a pass that deleted one volume, failed on another, and exits 1
C4_Witness == pc = "done" /\ exit_status = 1 /\ fail_count >= 1 /\ ok_count >= 1

C6_NoRegionNoCall ==
    (args.region = None /\ ambient = None /\ pc \notin {"start", "idle"}) =>
        /\ pc = "done"
        /\ exit_status = 2
        /\ calls = <<>>

\* the run that found no region and exited 2
C6_Witness ==
    /\ pc = "done" /\ exit_status = 2 /\ args.region = None /\ ambient = None
    /\ DOMAIN store # {}

HasArnPrefix(id) == "Arn" \in DOMAIN id /\ StartsWith(id.Arn, ArnPrefix)

\* p is the text between the first ':' of s and the next ':' (or the end of s)
IsSecondField(s, p) ==
    /\ Len(s) >= 4 + Len(p)
    /\ SubSeq(s, 5, 4 + Len(p)) = p
    /\ \A k \in DOMAIN p : p[k] # ":"
    /\ (Len(s) > 4 + Len(p) => s[5 + Len(p)] = ":")

\* C8 (as claimed): for 'arn:<p>:...' the partition is the second field; for
\* a malformed or absent ARN the result is ('aws', '000000000000').
C8_SentinelForBadArn ==
    idresult.exc = None =>
        IF HasArnPrefix(ident)
        THEN IsSecondField(ident.Arn, idresult.partition)
        ELSE idresult.partition = AwsPartition /\ idresult.account_id = ZeroAccount

\* C8 (amended): for 'arn:<p>:...' the partition is the second field; for a
\* malformed or absent ARN the partition is 'aws'; in both cases the account
\* is the Account of the identity response.
C8_PartitionAndAccount ==
    idresult.exc = None =>
        /\ idresult.account_id = ident.Account
        /\ IF HasArnPrefix(ident)
           THEN IsSecondField(ident.Arn, idresult.partition)
           ELSE idresult.partition = AwsPartition

\* 'arn:aws:iam:...' parsed to partition 'aws'
C8_Witness ==
    /\ idresult.exc = None
    /\ "Arn" \in DOMAIN ident
    /\ StartsWith(ident.Arn, <<"a", "r", "n", ":", "a", "w", "s", ":", "i", "a", "m">>)
    /\ idresult.partition = AwsPartition
    /\ idresult.account_id = "123456789012"

\* C9: the rows a run reports are the rows the run with the other value of
\* --verbose reports for the same inventory.
C9_VerboseSameRows ==
    [][(pc = "list" /\ pc' \in {"recheck", "done"}) =>
           rows' = build_rows(listed_volumes(~args.verbose, store),
                              partition', region', account_id')]_vars

\* C10: through the delete loop the deleted counter is the number of volumes
\* the run removed from the store, every delete_volume call is for a listed
\* row and no row gets two, and what was deleted stays deleted and counted.
C10_DeletedCounterIsExact ==
    [][/\ ok_count' = Cardinality(removed')
       /\ ok_count' = Len(SelectSeq(calls', LAMBDA c : IsDelete(c) /\ c.res = "ok"))
       /\ \A k \in DOMAIN calls' :
             IsDelete(calls'[k]) =>
                /\ \E r \in DOMAIN rows' : rows'[r].VolumeId = calls'[k].vid
                /\ \A j \in DOMAIN calls' : (IsDelete(calls'[j]) /\ j # k) => calls'[j].vid # calls'[k].vid
       /\ removed \subseteq removed'
       /\ ok_count' >= ok_count
       /\ removed' \cap DOMAIN store' = {}]_vars

\* a pass that deleted a volume and then failed on a later row
C10_Witness ==
    /\ pc = "done"
    /\ ok_count = 1
    /\ Len(calls) >= 2
    /\ IsDelete(calls[Len(calls)]) /\ calls[Len(calls)].res = "ClientError"
    /\ removed # {}

====
